---- MODULE Spec2Model ----
(***************************************************************************)
(* Model of three translation units of OpenColorIO:                        *)
(*   fileformats/FileFormatIridasItx.cpp  (read, bake, buildFileOps)       *)
(*   fileformats/FileFormatSpi1D.cpp      (read, buildFileOps)             *)
(*   ops/fixedfunction/FixedFunctionOp.cpp                                 *)
(* Each translation unit's operations are exercised by a specification of  *)
(* their own (SpecItxRead, SpecSpiRead, SpecBuild, SpecBake); the          *)
(* variables of the other specifications keep their initial value.         *)
(***************************************************************************)
EXTENDS Integers, Sequences, FiniteSets, TLC

VARIABLES
    \* ---- Iridas .itx LocalFileFormat::read ----
    itxPc,        \* "reading" | "returned" | "thrown"
    itxStream,    \* the lines nextline() has handed out so far, in order
    size3d,       \* int size3d
    in3d,         \* bool in3d
    raw,          \* std::vector<float> raw
    itxError,     \* the exception read() left with (NoError while none)
    itxCached     \* the LocalCachedFile read() returned (NoItxFile while none)

VARIABLES
    \* ---- the chain builders and FixedFunctionOp ----
    itxFile,      \* a LocalCachedFile of the Iridas .itx format
    spiFile,      \* a LocalCachedFile of the spi1d format
    ops,          \* OpRcPtrVec & ops
    shaderDesc,   \* GpuShaderDescRcPtr & shaderDesc: its function shader code
    call          \* the last call made: its arguments and how it ended

VARIABLES
    \* ---- spi1d LocalFileFormat::read ----
    spiPc,        \* "header" | "data" | "returned" | "thrown" | "crashed"
    spiStream,    \* the lines of the stream getline() has reached, in order
    spiGood,      \* istream.good() after the last getline()
    version,      \* int version
    components,   \* int components
    lut_size,     \* int lut_size
    from_min,     \* float from_min
    from_max,     \* float from_max
    lutArray,     \* Array & lutArray (empty until it is allocated)
    arrayIdx,     \* unsigned long i
    lineCount,    \* int lineCount
    spiOob,       \* a write went past the end of lutArray
    spiError,     \* the exception read() left with
    spiCached     \* the LocalCachedFile read() returned

VARIABLES
    \* ---- Iridas .itx LocalFileFormat::bake ----
    bakePc,       \* "start" | "writing" | "done" | "thrown"
    formatName,   \* const std::string & formatName
    reported,     \* baker.getCubeSize()
    evaluator,    \* the processor the baker's config hands out
    cubeSize,     \* int cubeSize
    ostream,      \* the header written: <<>> or <<size>>
    written,      \* the number of sample lines written
    lastLine,     \* the last sample line written
    bakeError     \* the exception bake() left with ("" while none)

bakeVars == <<bakePc, formatName, reported, evaluator, cubeSize, ostream,
              written, lastLine, bakeError>>

spiVars == <<spiPc, spiStream, spiGood, version, components, lut_size,
             from_min, from_max, lutArray, arrayIdx, lineCount, spiOob,
             spiError, spiCached>>

itxVars == <<itxPc, itxStream, size3d, in3d, raw, itxError, itxCached>>
buildVars == <<itxFile, spiFile, ops, shaderDesc, call>>

vars == <<itxPc, itxStream, size3d, in3d, raw, itxError, itxCached,
          itxFile, spiFile, ops, shaderDesc, call,
          spiPc, spiStream, spiGood, version, components, lut_size,
          from_min, from_max, lutArray, arrayIdx, lineCount, spiOob,
          spiError, spiCached,
          bakePc, formatName, reported, evaluator, cubeSize, ostream,
          written, lastLine, bakeError>>

\* the variables each group of operations leaves alone
notItxVars == <<buildVars, spiVars, bakeVars>>
notBuildVars == <<itxVars, spiVars, bakeVars>>
notSpiVars == <<itxVars, buildVars, bakeVars>>
notBakeVars == <<itxVars, buildVars, spiVars>>

(***************************************************************************)
(* 32-bit int arithmetic.  A signed overflow is undefined behaviour: the   *)
(* outcomes modelled are the two's-complement wrap-around and saturation.  *)
(***************************************************************************)
INT_MAX == (1073741824 - 1) + 1073741824
INT_MIN == -INT_MAX - 1

Abs(x) == IF x < 0 THEN -x ELSE x

\* a*b does not fit an int
MulOverflows(a, b) ==
    /\ a # 0
    /\ b # 0
    /\ Abs(a) > INT_MAX \div Abs(b)

\* a+b wrapped to 32 bits, computed without leaving the int range
AddWrap(a, b) ==
    IF a >= 0 /\ b >= 0 /\ a > INT_MAX - b
        THEN (a + INT_MIN) + (b + INT_MIN)
    ELSE IF a < 0 /\ b < 0 /\ a < INT_MIN - b
        THEN (a - INT_MIN) + (b - INT_MIN)
    ELSE a + b

RECURSIVE MulWrapNat(_, _)
\* a*b wrapped to 32 bits for b >= 0 (double and add)
MulWrapNat(a, b) ==
    IF b = 0 THEN 0
    ELSE IF b % 2 = 1 THEN AddWrap(a, MulWrapNat(AddWrap(a, a), b \div 2))
    ELSE MulWrapNat(AddWrap(a, a), b \div 2)

\* the values the int expression a*b can produce
IntMul(a, b) ==
    IF ~MulOverflows(a, b) THEN {a * b}
    ELSE {IF b >= 0 THEN MulWrapNat(a, b) ELSE MulWrapNat(0 - a, 0 - b),
          IF (a < 0) = (b < 0) THEN INT_MAX ELSE INT_MIN}

\* the values the int expression s*s*s can produce
Cube(s) == UNION {IntMul(p, s) : p \in IntMul(s, s)}

\* the values the int expression 3*s*s*s can produce
ThreeCube(s) ==
    UNION {IntMul(q, s) : q \in UNION {IntMul(p, s) : p \in IntMul(3, s)}}

(***************************************************************************)
(* Text lines.  A line is what pystring sees of it: whether it starts with *)
(* '#', and its whitespace-separated, lower-cased parts.  A part is the    *)
(* word lut_3d_size, an integer literal, a floating-point literal or any   *)
(* other word.                                                             *)
(***************************************************************************)
Tok(k, v) == [kind |-> k, n |-> v]
TagTok == Tok("lut_3d_size", 0)
JunkTok == Tok("word", 0)
IntTok(v) == Tok("int", v)
FltTok(v) == Tok("flt", v)

Line(h, p) == [hash |-> h, parts |-> p]
EmptyLine == Line(FALSE, <<>>)

\* ParseUtils StringToInt: succeeds on an integer literal only
StringToInt(tok) == tok.kind = "int"

\* ParseUtils StringVecToFloatVec: succeeds when every part is a number
StringVecToFloatVec(parts) ==
    \A i \in 1..Len(parts) : parts[i].kind \in {"int", "flt"}

\* the floats StringVecToFloatVec stores in tmpfloats
FloatVec(parts) == [i \in 1..Len(parts) |-> parts[i].n]

(***************************************************************************)
(* Bounds of the input streams.                                            *)
(***************************************************************************)
MaxTriples == 8
MaxOther == 2

\* the declared sizes the streams use: invalid, degenerate, regular, and
\* one whose cube does not fit an int
Sizes == {-1, 0, 1, 2, 2048}

FileName == "lut.itx"

IsTripleLine(l) ==
    /\ ~l.hash
    /\ Len(l.parts) = 3
    /\ StringVecToFloatVec(l.parts)

NumTriples(s) == Cardinality({i \in 1..Len(s) : IsTripleLine(s[i])})

\* the k-th triple line of a stream carries the values 3k-2, 3k-1, 3k
TripleLine(k) == Line(FALSE, <<FltTok(3*k - 2), FltTok(3*k - 1), FltTok(3*k)>>)

SizeLine(n) == Line(FALSE, <<TagTok, IntTok(n)>>)
CommentLine == Line(TRUE, <<JunkTok>>)

OtherLines ==
    {CommentLine, EmptyLine}
    \cup {SizeLine(n) : n \in Sizes}
    \cup {Line(FALSE, <<TagTok>>),
          Line(FALSE, <<TagTok, FltTok(2)>>),
          Line(FALSE, <<TagTok, IntTok(2), IntTok(2)>>),
          Line(FALSE, <<FltTok(1), FltTok(2)>>),
          Line(FALSE, <<FltTok(1), JunkTok, FltTok(3)>>)}

\* the lines the stream can hand out next
ItxNextLines ==
    (IF NumTriples(itxStream) < MaxTriples
        THEN {TripleLine(NumTriples(itxStream) + 1)} ELSE {})
    \cup
    (IF Len(itxStream) - NumTriples(itxStream) < MaxOther
        THEN OtherLines ELSE {})

(***************************************************************************)
(* Iridas .itx: errors and the cached file.                                *)
(***************************************************************************)
NoError == [exc |-> "none", file |-> "", line |-> -1, content |-> EmptyLine,
            error |-> "", found |-> 0, expected |-> 0]

\* LocalFileFormat::ThrowErrorMessage: the line number and the line's text
\* are part of the message only when line is not -1
ItxThrowErrorMessage(error, fileName, line, lineContent, found, expected) ==
    [exc |-> "Exception",
     file |-> fileName,
     line |-> line,
     content |-> IF line # -1 THEN lineContent ELSE EmptyLine,
     error |-> error,
     found |-> found,
     expected |-> expected]

\* std::vector::reserve with a count above max_size()
LengthError == [NoError EXCEPT !.exc = "std::length_error"]

NoItxFile == [has |-> FALSE, size |-> 0, array |-> <<>>]

(***************************************************************************)
(* Iridas .itx LocalFileFormat::read, one line of the stream at a time.    *)
(***************************************************************************)
\* int lineNumber: the lines handed out so far
lineNumber == Len(itxStream)

ItxThrow(e) ==
    /\ itxPc' = "thrown"
    /\ itxError' = e
    /\ UNCHANGED itxCached

ItxContinue ==
    /\ itxPc' = "reading"
    /\ UNCHANGED <<itxError, itxCached>>

\* if(!istream): read is handed a stream that has failed
ItxStreamEmpty ==
    /\ itxPc = "reading"
    /\ itxStream = <<>>
    /\ UNCHANGED notItxVars
    /\ UNCHANGED <<itxStream, size3d, in3d, raw>>
    /\ ItxThrow([NoError EXCEPT
           !.exc = "Exception",
           !.error = "File stream empty when trying to read Iridas .itx LUT"])

\* a variant of PushTriple whose loop stops one value early
PushTripleShort(r, tmpfloats) == r \o <<tmpfloats[1], tmpfloats[2]>>

\* for(int i=0; i<3; ++i) raw.push_back(tmpfloats[i])
PushTriple(r, tmpfloats) == r \o <<tmpfloats[1], tmpfloats[2], tmpfloats[3]>>

\* one pass of the while(nextline(istream, line)) loop
ItxReadLine(line) ==
    /\ itxPc = "reading"
    /\ UNCHANGED notItxVars
    /\ itxStream' = Append(itxStream, line)
    /\ IF line.hash \/ line.parts = <<>>
         THEN \* a comment, or nothing left after strip and split
              /\ ItxContinue
              /\ UNCHANGED <<size3d, in3d, raw>>
       ELSE IF line.parts[1].kind = "lut_3d_size"
         THEN IF Len(line.parts) # 2 \/ ~StringToInt(line.parts[2])
                THEN /\ ItxThrow(ItxThrowErrorMessage(
                            "Malformed LUT_3D_SIZE tag.", FileName,
                            lineNumber + 1, line, 0, 0))
                     /\ UNCHANGED <<size3d, in3d, raw>>
                ELSE /\ size3d' = line.parts[2].n
                     /\ UNCHANGED raw
                     \* raw.reserve(3*size3d*size3d*size3d): a negative int
                     \* converts to a count above max_size()
                     /\ \E count \in ThreeCube(line.parts[2].n) :
                          IF count < 0
                            THEN /\ ItxThrow(LengthError)
                                 /\ UNCHANGED in3d
                            ELSE /\ ItxContinue
                                 /\ in3d' = TRUE
       ELSE IF in3d
         THEN IF ~StringVecToFloatVec(line.parts) \/ Len(line.parts) # 3
                THEN /\ ItxThrow(ItxThrowErrorMessage(
                            "Malformed color triples specified.", FileName,
                            lineNumber + 1, line, 0, 0))
                     /\ UNCHANGED <<size3d, in3d, raw>>
                ELSE /\ ItxContinue
                     /\ raw' = PushTriple(raw, FloatVec(line.parts))
                     /\ UNCHANGED <<size3d, in3d>>
       ELSE \* before the first LUT_3D_SIZE tag every other line is skipped
            /\ ItxContinue
            /\ UNCHANGED <<size3d, in3d, raw>>

\* nextline() returns false: the size validation and the construction of
\* the cached file
ItxEndOfStream ==
    /\ itxPc = "reading"
    /\ UNCHANGED <<itxStream, size3d, in3d, raw>>
    /\ UNCHANGED notItxVars
    /\ IF in3d
         THEN \E cube \in Cube(size3d) :
                IF cube # Len(raw) \div 3
                  THEN ItxThrow(ItxThrowErrorMessage(
                           "Incorrect number of 3D LUT entries.", FileName,
                           -1, EmptyLine, Len(raw) \div 3, cube))
                  ELSE /\ itxPc' = "returned"
                       /\ itxCached' = [has |-> TRUE, size |-> size3d,
                                        array |-> raw]
                       /\ UNCHANGED itxError
         ELSE ItxThrow(ItxThrowErrorMessage(
                  "No 3D LUT found.", FileName, -1, EmptyLine, 0, 0))

ItxRead ==
    \/ ItxStreamEmpty
    \/ \E line \in ItxNextLines : ItxReadLine(line)
    \/ ItxEndOfStream

(***************************************************************************)
(* Properties of Iridas .itx read.                                         *)
(***************************************************************************)
ItxFinished == itxPc # "reading"

IsCommentOrBlank(l) == l.hash \/ l.parts = <<>>

IsSizeLine(l) ==
    /\ ~l.hash
    /\ Len(l.parts) = 2
    /\ l.parts[1].kind = "lut_3d_size"
    /\ l.parts[2].kind = "int"

IsMalformed(l) ==
    ~(IsCommentOrBlank(l) \/ IsSizeLine(l) \/ IsTripleLine(l))

SizeLinesAt(s) == {i \in 1..Len(s) : IsSizeLine(s[i])}
TripleLinesAt(s) == {i \in 1..Len(s) : IsTripleLine(s[i])}
MalformedAt(s) == {i \in 1..Len(s) : IsMalformed(s[i])}

Min(S) == CHOOSE x \in S : \A y \in S : x <= y

RECURSIVE ValuesOf(_)
\* the values of the triple lines of a stream, in stream order
ValuesOf(s) ==
    IF s = <<>> THEN <<>>
    ELSE IF IsTripleLine(Head(s))
        THEN <<Head(s).parts[1].n, Head(s).parts[2].n, Head(s).parts[3].n>>
             \o ValuesOf(Tail(s))
    ELSE ValuesOf(Tail(s))

\* n*n*n as a mathematical integer equals e (no int equals it when the
\* cube does not fit an int)
IsExactCube(n, e) ==
    /\ ~MulOverflows(n, n)
    /\ ~MulOverflows(n * n, n)
    /\ e = n * n * n

\* the stream declares one size and holds no malformed line
DeclaresOnce(s) ==
    /\ Cardinality(SizeLinesAt(s)) = 1
    /\ MalformedAt(s) = {}

DeclaredSize(s) == s[Min(SizeLinesAt(s))].parts[2].n

\* C4 as stated: a stream that declares LUT_3D_SIZE N and holds T triples,
\* T # N^3, makes read fail without a cached file, with the message
\* "found T, expected N^3" and no line number.
C4_CountMismatchReported ==
    (/\ ItxFinished
     /\ DeclaresOnce(itxStream)
     /\ ~IsExactCube(DeclaredSize(itxStream), NumTriples(itxStream)))
    => /\ itxPc = "thrown"
       /\ ~itxCached.has
       /\ itxError.error = "Incorrect number of 3D LUT entries."
       /\ itxError.line = -1
       /\ itxError.found = NumTriples(itxStream)
       /\ IsExactCube(DeclaredSize(itxStream), itxError.expected)

\* the stream is a LUT_3D_SIZE N line followed by exactly N^3 triples, with
\* comment lines and blank lines anywhere
C5_Case ==
    /\ DeclaresOnce(itxStream)
    /\ \A i \in TripleLinesAt(itxStream) : i > Min(SizeLinesAt(itxStream))
    /\ IsExactCube(DeclaredSize(itxStream), NumTriples(itxStream))

\* C5: such a stream is read successfully into a LUT3D of size N, and the
\* array handed to setArrayFromRedFastestOrder is the 3*N^3 values of the
\* stream in stream order.
C5_ReadKeepsOrder ==
    (ItxFinished /\ C5_Case)
    => /\ itxPc = "returned"
       /\ itxCached.has
       /\ itxCached.size = DeclaredSize(itxStream)
       /\ itxCached.array = ValuesOf(itxStream)
       /\ Len(itxCached.array) = 3 * NumTriples(itxStream)

\* a size 2 cube of 8 triples, read with a comment or blank line in between
C5_Witness ==
    /\ itxPc = "returned"
    /\ C5_Case
    /\ itxCached.size = 2
    /\ Len(itxCached.array) = 24
    /\ \E i \in 2..Len(itxStream) : IsCommentOrBlank(itxStream[i])

\* C6 as stated: the first malformed line, wherever it stands, makes read
\* fail there with the file name, the line's number and the line's text;
\* no later line is consumed and no cached file is returned.
C6_MalformedLineFails ==
    (ItxFinished /\ MalformedAt(itxStream) # {})
    => /\ itxPc = "thrown"
       /\ ~itxCached.has
       /\ itxError.exc = "Exception"
       /\ itxError.file = FileName
       /\ itxError.line = Min(MalformedAt(itxStream))
       /\ itxError.content = itxStream[Min(MalformedAt(itxStream))]
       /\ Len(itxStream) = Min(MalformedAt(itxStream))

\* C9 as stated: a returned LUT3D has edge size N >= 2 and exactly 3*N^3
\* values.
C9_ReturnedLutIsValid ==
    itxPc = "returned"
    => /\ itxCached.size >= 2
       /\ \E cube \in 0..(Len(itxCached.array) \div 3) :
            /\ IsExactCube(itxCached.size, cube)
            /\ Len(itxCached.array) = 3 * cube

(***************************************************************************)
(* The chain builders.  An Op of the vector is a record; a LUT Op holds a  *)
(* reference (lut) to the LUT data of the cached file it was built from.   *)
(***************************************************************************)
MaxOps == 3

Directions ==
    {"TRANSFORM_DIR_FORWARD", "TRANSFORM_DIR_INVERSE", "TRANSFORM_DIR_UNKNOWN"}

Interpolations == {"INTERP_NEAREST", "INTERP_LINEAR"}

\* the kinds of CachedFile a builder can be handed
FileKinds == {"iridas_itx", "spi1d"}

\* the [from_min, from_max] domains of the spi1d files
Domains == {<<0, 1>>, <<-1, 2>>}

Styles == {"ACES_RED_MOD_03_FWD", "ACES_RED_MOD_03_INV"}

\* TransformDirection CombineTransformDirections(d1, d2)
CombineTransformDirections(d1, d2) ==
    IF d1 = "TRANSFORM_DIR_UNKNOWN" \/ d2 = "TRANSFORM_DIR_UNKNOWN"
        THEN "TRANSFORM_DIR_UNKNOWN"
    ELSE IF d1 = d2 THEN "TRANSFORM_DIR_FORWARD"
    ELSE "TRANSFORM_DIR_INVERSE"

\* an Op as it is constructed: style is the data of a FixedFunctionOp,
\* dataCacheID the cache id of that data, cacheID the Op's m_cacheID (both
\* empty until finalize), finalized the number of finalize calls made on it
Op(kind, dir, lut, min, max, style) ==
    [kind |-> kind, dir |-> dir, lut |-> lut, min |-> min, max |-> max,
     style |-> style, dataCacheID |-> <<>>, cacheID |-> <<>>,
     finalized |-> 0]

NoRange == <<0, 0, 0>>

\* CreateLut3DOp(ops, lut, direction): appends one LUT3D Op
CreateLut3DOp(o, lut, direction) ==
    Append(o, Op("Lut3DOp", direction, lut, NoRange, NoRange, ""))

\* CreateLut1DOp(ops, lut, direction): appends one LUT1D Op
CreateLut1DOp(o, lut, direction) ==
    Append(o, Op("Lut1DOp", direction, lut, NoRange, NoRange, ""))

\* CreateMinMaxOp(ops, min, max, direction): appends one range remap Op
CreateMinMaxOp(o, min, max, direction) ==
    Append(o, Op("MinMaxOp", direction, "", min, max, ""))

\* FixedFunctionOpData::inverse(): the data of the paired style
FixedFunctionInverse(style) ==
    IF style = "ACES_RED_MOD_03_FWD" THEN "ACES_RED_MOD_03_INV"
    ELSE "ACES_RED_MOD_03_FWD"

Call(op, file, dir, tdir, interp, style, threw) ==
    [op |-> op, file |-> file, dir |-> dir, tdir |-> tdir, interp |-> interp,
     style |-> style, threw |-> threw]

\* Iridas .itx LocalFileFormat::buildFileOps
ItxBuildFileOps(file, fileTransform, dir) ==
    LET newDir == CombineTransformDirections(dir, fileTransform.direction)
        threw ==
            IF file # "iridas_itx"
                THEN "Cannot build Iridas .itx Op. Invalid cache type."
            ELSE IF newDir = "TRANSFORM_DIR_UNKNOWN"
                THEN "Cannot build file format transform, unspecified transform direction."
            ELSE ""
    IN  /\ Len(ops) + 1 <= MaxOps
        /\ call' = Call("IridasItx.buildFileOps", file, dir,
                        fileTransform.direction, fileTransform.interpolation,
                        "", threw)
        /\ IF threw = "" /\ itxFile.lut3D
             THEN /\ itxFile' = [itxFile EXCEPT !.interpolation =
                                     fileTransform.interpolation]
                  /\ ops' = CreateLut3DOp(ops, "itx.lut3D", newDir)
             ELSE UNCHANGED <<itxFile, ops>>
        /\ UNCHANGED <<spiFile, shaderDesc>>
        /\ UNCHANGED notBuildVars

\* a variant of Spi1DCreateOps that appends the range remap first in both
\* directions
Spi1DCreateOpsSameOrder(o, min, max, newDir) ==
    IF newDir = "TRANSFORM_DIR_FORWARD"
        THEN CreateLut1DOp(
                 CreateMinMaxOp(o, min, max, "TRANSFORM_DIR_FORWARD"),
                 "spi1d.lut", "TRANSFORM_DIR_FORWARD")
        ELSE CreateLut1DOp(
                 CreateMinMaxOp(o, min, max, "TRANSFORM_DIR_INVERSE"),
                 "spi1d.lut", "TRANSFORM_DIR_INVERSE")

\* spi1d buildFileOps, the if (newDir == TRANSFORM_DIR_FORWARD) ... else
Spi1DCreateOps(o, min, max, newDir) ==
    IF newDir = "TRANSFORM_DIR_FORWARD"
        THEN CreateLut1DOp(
                 CreateMinMaxOp(o, min, max, "TRANSFORM_DIR_FORWARD"),
                 "spi1d.lut", "TRANSFORM_DIR_FORWARD")
        ELSE CreateMinMaxOp(
                 CreateLut1DOp(o, "spi1d.lut", "TRANSFORM_DIR_INVERSE"),
                 min, max, "TRANSFORM_DIR_INVERSE")

\* spi1d LocalFileFormat::buildFileOps
Spi1DBuildFileOps(file, fileTransform, dir) ==
    LET newDir == CombineTransformDirections(dir, fileTransform.direction)
        min == <<spiFile.from_min, spiFile.from_min, spiFile.from_min>>
        max == <<spiFile.from_max, spiFile.from_max, spiFile.from_max>>
        threw ==
            IF file # "spi1d"
                THEN "Cannot build Spi1D Op. Invalid cache type."
            ELSE ""
    IN  /\ Len(ops) + 2 <= MaxOps
        /\ call' = Call("Spi1D.buildFileOps", file, dir,
                        fileTransform.direction, fileTransform.interpolation,
                        "", threw)
        /\ IF threw = ""
             THEN /\ spiFile' = [spiFile EXCEPT !.interpolation =
                                     fileTransform.interpolation]
                  /\ ops' = Spi1DCreateOps(ops, min, max, newDir)
             ELSE UNCHANGED <<spiFile, ops>>
        /\ UNCHANGED <<itxFile, shaderDesc>>
        /\ UNCHANGED notBuildVars

\* CreateFixedFunctionOp(ops, funcData, direction)
CreateFixedFunctionOpInto(o, funcData, direction) ==
    LET func == IF direction = "TRANSFORM_DIR_INVERSE"
                    THEN FixedFunctionInverse(funcData)
                    ELSE funcData
    IN  Append(o, Op("FixedFunctionOp", "", "", NoRange, NoRange, func))

CreateFixedFunctionOp(funcData, direction) ==
    /\ Len(ops) + 1 <= MaxOps
    /\ call' = Call("CreateFixedFunctionOp", "", direction,
                    "TRANSFORM_DIR_FORWARD", "", funcData, "")
    /\ ops' = CreateFixedFunctionOpInto(ops, funcData, direction)
    /\ UNCHANGED <<itxFile, spiFile, shaderDesc>>
    /\ UNCHANGED notBuildVars

\* BuildFixedFunctionOp(ops, config, context, transform, dir)
BuildFixedFunctionOp(transform, dir) ==
    /\ Len(ops) + 1 <= MaxOps
    /\ call' = Call("BuildFixedFunctionOp", "", dir, transform.direction, "",
                    transform.style, "")
    /\ ops' = CreateFixedFunctionOpInto(ops, transform.style, dir)
    /\ UNCHANGED <<itxFile, spiFile, shaderDesc>>
    /\ UNCHANGED notBuildVars

\* a variant of canCombineWith that accepts another FixedFunctionOp
canCombineWithSameType(op, secondOp) == secondOp.kind = "FixedFunctionOp"

\* FixedFunctionOp::canCombineWith
canCombineWith(op, secondOp) == FALSE

\* FixedFunctionOp::combineWith, called on the Op at index i of the vector
combineWith(i, secondOp) ==
    /\ i \in 1..Len(ops)
    /\ ops[i].kind = "FixedFunctionOp"
    /\ call' = Call("FixedFunctionOp.combineWith", "", "", "", "",
                    secondOp.style,
                    IF ~canCombineWith(ops[i], secondOp)
                        THEN "FixedFunctionOp: canCombineWith must be checked before calling combineWith."
                        ELSE "")
    /\ UNCHANGED <<itxFile, spiFile, ops, shaderDesc>>
    /\ UNCHANGED notBuildVars

\* the Ops of a vector that is finalized, the finalize calls made on one
\* Op, and the fragments one shader description is handed
MaxFinalizeOps == 2
MaxFinalize == 2
MaxShaderCode == 1

\* FixedFunctionOpData::finalize() and getCacheID(): the cache id of the
\* data, computed from its style
FixedFunctionOpDataCacheID(style) == <<"FixedFunctionOpData", style>>

\* a variant of cacheIDStream that leaves the data's cache id out once the
\* Op has a cache id
cacheIDStreamOnce(op) ==
    IF op.cacheID = <<>>
        THEN <<"<FixedFunctionOp ", op.dataCacheID, " ", ">">>
        ELSE <<"<FixedFunctionOp ", <<>>, " ", ">">>

\* the text finalize streams into cacheIDStream, for an Op whose data is
\* finalized
cacheIDStream(op) == <<"<FixedFunctionOp ", op.dataCacheID, " ", ">">>

\* FixedFunctionOp::finalize, called on the Op at index i of the vector
finalize(i) ==
    /\ i \in 1..Len(ops)
    /\ ops[i].kind = "FixedFunctionOp"
    /\ ops[i].finalized < MaxFinalize
    /\ LET data == [ops[i] EXCEPT !.dataCacheID =
                        FixedFunctionOpDataCacheID(ops[i].style)]
       IN  ops' = [ops EXCEPT ![i] =
                      [data EXCEPT !.cacheID = cacheIDStream(data),
                                   !.finalized = @ + 1]]
    /\ call' = Call("FixedFunctionOp.finalize", "", "", "", "",
                    ops[i].style, "")
    /\ UNCHANGED <<itxFile, spiFile, shaderDesc>>
    /\ UNCHANGED notBuildVars

\* FixedFunctionOp::getCPUOp, called on the Op at index i of the vector: the
\* renderer is built from the const data and handed to the caller
getCPUOp(i) ==
    /\ i \in 1..Len(ops)
    /\ ops[i].kind = "FixedFunctionOp"
    /\ call' = Call("FixedFunctionOp.getCPUOp", "", "", "", "",
                    ops[i].style, "")
    /\ UNCHANGED <<itxFile, spiFile, ops, shaderDesc>>
    /\ UNCHANGED notBuildVars

\* GetFixedFunctionGPUShaderProgram(ss, fnOpData) between ss.indent() and
\* ss.dedent(): the fragment of the style
GetFixedFunctionGPUShaderProgram(style) == <<"indent", style, "dedent">>

\* FixedFunctionOp::extractGpuShaderInfo, called on the Op at index i
extractGpuShaderInfo(i) ==
    /\ i \in 1..Len(ops)
    /\ ops[i].kind = "FixedFunctionOp"
    /\ Len(shaderDesc) < MaxShaderCode
    /\ shaderDesc' = Append(shaderDesc,
                            GetFixedFunctionGPUShaderProgram(ops[i].style))
    /\ call' = Call("FixedFunctionOp.extractGpuShaderInfo", "", "", "", "",
                    ops[i].style, "")
    /\ UNCHANGED <<itxFile, spiFile, ops>>
    /\ UNCHANGED notBuildVars

FileTransforms == [direction : Directions, interpolation : Interpolations]
FixedFunctionTransforms == [direction : Directions, style : Styles]

\* the Ops combineWith can be handed as its second Op
SecondOps ==
    {Op("FixedFunctionOp", "", "", NoRange, NoRange, s) : s \in Styles}
    \cup {Op("Lut3DOp", "TRANSFORM_DIR_FORWARD", "itx.lut3D", NoRange,
             NoRange, "")}

NoCall == Call("", "", "", "", "", "", "")

IdleItxFile == [lut3D |-> TRUE, interpolation |-> "INTERP_LINEAR"]
IdleSpiFile ==
    [interpolation |-> "INTERP_LINEAR", from_min |-> 0, from_max |-> 1]

Build ==
    \/ \E f \in FileKinds, t \in FileTransforms, d \in Directions :
         ItxBuildFileOps(f, t, d)
    \/ \E f \in FileKinds, t \in FileTransforms, d \in Directions :
         Spi1DBuildFileOps(f, t, d)
    \/ \E s \in Styles, d \in Directions : CreateFixedFunctionOp(s, d)
    \/ \E t \in FixedFunctionTransforms, d \in Directions :
         BuildFixedFunctionOp(t, d)
    \/ \E i \in 1..MaxOps, o \in SecondOps : combineWith(i, o)

\* the life of the FixedFunctionOps of a vector: constructed, finalized,
\* rendered
Finalize ==
    \/ \E s \in Styles, d \in Directions :
         Len(ops) < MaxFinalizeOps /\ CreateFixedFunctionOp(s, d)
    \/ \E i \in 1..MaxFinalizeOps : finalize(i)
    \/ \E i \in 1..MaxFinalizeOps : getCPUOp(i)
    \/ \E i \in 1..MaxFinalizeOps : extractGpuShaderInfo(i)

(***************************************************************************)
(* Properties of the chain builders and of FixedFunctionOp.  A step is     *)
(* described by call', the call that made it.                              *)
(***************************************************************************)
Builders ==
    {"IridasItx.buildFileOps", "Spi1D.buildFileOps", "CreateFixedFunctionOp",
     "BuildFixedFunctionOp"}

FileBuilders == {"IridasItx.buildFileOps", "Spi1D.buildFileOps"}

ResolvedDirection(c) == CombineTransformDirections(c.dir, c.tdir)

\* C1 as stated: a builder whose resolved direction is Unknown fails and
\* leaves the ops vector as it was.
C1_UnknownDirectionAborts ==
    [][(/\ call'.op \in Builders
        /\ ResolvedDirection(call') = "TRANSFORM_DIR_UNKNOWN")
       => (call'.threw # "" /\ ops' = ops)]_vars

\* C2 as stated: buildFileOps leaves every field of the cached file and of
\* its LUT data, the interpolation included, as it was.
C2_CachedFileReadOnly ==
    [][call'.op \in FileBuilders
       => (itxFile' = itxFile /\ spiFile' = spiFile)]_vars

SpiMin == <<spiFile.from_min, spiFile.from_min, spiFile.from_min>>
SpiMax == <<spiFile.from_max, spiFile.from_max, spiFile.from_max>>

\* C3: on a spi1d cached file, buildFileOps with resolved direction Forward
\* appends [range remap (Forward, from_min, from_max), LUT1D (Forward)], and
\* with resolved direction Inverse appends [LUT1D (Inverse), range remap
\* (Inverse)]; the Ops that were in the vector stay in front, unchanged.
C3_Spi1DOpOrder ==
    [][(call'.op = "Spi1D.buildFileOps" /\ call'.file = "spi1d")
       => /\ ResolvedDirection(call') = "TRANSFORM_DIR_FORWARD"
             => /\ call'.threw = ""
                /\ ops' = ops \o
                     <<Op("MinMaxOp", "TRANSFORM_DIR_FORWARD", "", SpiMin,
                          SpiMax, ""),
                       Op("Lut1DOp", "TRANSFORM_DIR_FORWARD", "spi1d.lut",
                          NoRange, NoRange, "")>>
          /\ ResolvedDirection(call') = "TRANSFORM_DIR_INVERSE"
             => /\ call'.threw = ""
                /\ ops' = ops \o
                     <<Op("Lut1DOp", "TRANSFORM_DIR_INVERSE", "spi1d.lut",
                          NoRange, NoRange, ""),
                       Op("MinMaxOp", "TRANSFORM_DIR_INVERSE", "", SpiMin,
                          SpiMax, "")>>]_vars

\* an inverse spi1d build that followed another Op
C3_Witness ==
    /\ call.op = "Spi1D.buildFileOps"
    /\ call.file = "spi1d"
    /\ ResolvedDirection(call) = "TRANSFORM_DIR_INVERSE"
    /\ Len(ops) = 3
    /\ ops[2].kind = "Lut1DOp"
    /\ ops[3].kind = "MinMaxOp"
    /\ ops[3].min = <<-1, -1, -1>>

\* C10: canCombineWith is false for every second Op, and every combineWith
\* call raises the contract violation and leaves the ops vector as it was.
C10_CombineWithAlwaysThrows ==
    [][call'.op = "FixedFunctionOp.combineWith"
       => /\ \A i \in 1..Len(ops), o \in SecondOps :
               ops[i].kind = "FixedFunctionOp" => ~canCombineWith(ops[i], o)
          /\ call'.threw # ""
          /\ ops' = ops]_vars

\* combineWith called with a second FixedFunctionOp on a vector of two Ops
C10_Witness ==
    /\ call.op = "FixedFunctionOp.combineWith"
    /\ call.threw # ""
    /\ call.style \in Styles
    /\ Len(ops) >= 2

IsFinalized(op) == op.kind = "FixedFunctionOp" /\ op.finalized >= 1

Renderers ==
    {"FixedFunctionOp.getCPUOp", "FixedFunctionOp.extractGpuShaderInfo"}

\* C11: once a FixedFunctionOp is finalized, every further step that leaves
\* its data alone, a further finalize included, leaves its cache id as the
\* first finalize made it; two finalized Ops with equal data, or with equal
\* data cache ids, have equal cache ids; getCPUOp and extractGpuShaderInfo
\* leave the data and the cache id of every Op as they were.
C11_FinalizeIdempotent ==
    [][/\ \A i \in 1..Len(ops) :
            (IsFinalized(ops[i]) /\ ops'[i].style = ops[i].style)
            => /\ ops'[i].cacheID = ops[i].cacheID
               /\ ops'[i].dataCacheID = ops[i].dataCacheID
       /\ \A i, j \in 1..Len(ops') :
            (/\ IsFinalized(ops'[i])
             /\ IsFinalized(ops'[j])
             /\ \/ ops'[i].style = ops'[j].style
                \/ ops'[i].dataCacheID = ops'[j].dataCacheID)
            => ops'[i].cacheID = ops'[j].cacheID
       /\ call'.op \in Renderers => ops' = ops]_vars

\* an Op finalized twice, the second time after a shader fragment was
\* extracted, next to a finalized Op of the same style
C11_Witness ==
    /\ call.op = "FixedFunctionOp.finalize"
    /\ Len(ops) = 2
    /\ ops[1].finalized = 2
    /\ IsFinalized(ops[2])
    /\ ops[1].style = ops[2].style
    /\ ops[1].cacheID = ops[2].cacheID
    /\ ops[1].cacheID # <<>>
    /\ Len(shaderDesc) = 1

(***************************************************************************)
(* spi1d LocalFileFormat::read, one getline() at a time.  A header line is *)
(* its leading tag word followed by its arguments.                         *)
(***************************************************************************)
MaxHeaderLines == 4
MaxDataLines == 3

SpiFileName == "lut.spi1d"

TagLine(tag, args) == Line(FALSE, <<Tok(tag, 0)>> \o args)
OpenBrace == TagLine("{", <<>>)
CloseBrace == TagLine("}", <<>>)

\* pystring::startswith(headerLine, tag)
StartsWith(line, tag) == line.parts # <<>> /\ line.parts[1].kind = tag

\* sscanf(lineBuffer, "<tag> %d ...", ...) converted n numbers
Sscanf(line, n) ==
    /\ Len(line.parts) >= n + 1
    /\ \A k \in 2..(n + 1) : line.parts[k].kind \in {"int", "flt"}

SpiVersions == {1, 2}
SpiComponents == {-2, -1, 0, 1, 2, 3, 4}
SpiLengths == {-1, 0, 1, 2}

HeaderLines ==
    {TagLine("Version", <<IntTok(v)>>) : v \in SpiVersions}
    \cup {TagLine("Components", <<IntTok(c)>>) : c \in SpiComponents}
    \cup {TagLine("Length", <<IntTok(l)>>) : l \in SpiLengths}
    \cup {TagLine("From", <<FltTok(-1), FltTok(2)>>),
          TagLine("From", <<FltTok(-1)>>),
          TagLine("Length", <<JunkTok>>),
          EmptyLine}

HeaderTags == {"Version", "From", "Components", "Length"}

\* the header lines the stream can hold next: each tag at most once
SpiNextHeaderLines ==
    IF Len(spiStream) >= MaxHeaderLines THEN {}
    ELSE {l \in HeaderLines :
            \A k \in 1..Len(spiStream) :
                \A t \in HeaderTags :
                    ~(StartsWith(l, t) /\ StartsWith(spiStream[k], t))}

\* the index of the line that opened the data block (0 while none)
BraceAt(s) ==
    IF \E k \in 1..Len(s) : s[k] = OpenBrace
        THEN CHOOSE k \in 1..Len(s) : s[k] = OpenBrace /\
                 \A j \in 1..(k - 1) : s[j] # OpenBrace
        ELSE 0

\* a data line of n values: the line at position p of the stream carries
\* the values 3p-2, 3p-1, 3p
ValueLine(p, n) ==
    Line(FALSE, [k \in 1..n |-> FltTok(3 * p - 3 + k)])

\* the data lines the stream can hold next
SpiNextDataLines ==
    IF Len(spiStream) - BraceAt(spiStream) >= MaxDataLines THEN {}
    ELSE {ValueLine(Len(spiStream) + 1, n) : n \in 1..3}
         \cup {EmptyLine, CloseBrace, Line(FALSE, <<FltTok(1), JunkTok>>)}

\* LocalFileFormat::ThrowErrorMessage of the spi1d format
SpiThrowErrorMessage(error, fileName, line, lineContent) ==
    [exc |-> "Exception",
     file |-> fileName,
     line |-> line,
     content |-> IF line # -1 THEN lineContent ELSE EmptyLine,
     error |-> error,
     found |-> 0,
     expected |-> 0]

NoSpiFile == [has |-> FALSE, length |-> 0, array |-> <<>>, from_min |-> 0,
              from_max |-> 1]

\* int currentLine: the getline() calls made so far
currentLine == Len(spiStream)

SpiThrow(e) ==
    /\ spiPc' = "thrown"
    /\ spiError' = e
    /\ UNCHANGED spiCached

\* the header tag of one line: the error it raises ("" when none) and the
\* values of the header variables after it
SpiHeaderTag(line) ==
    LET now == [err |-> "", version |-> version, from_min |-> from_min,
                from_max |-> from_max, components |-> components,
                lut_size |-> lut_size]
    IN  IF StartsWith(line, "Version")
          THEN IF ~Sscanf(line, 1)
                 THEN [now EXCEPT !.err = "Invalid 'Version' Tag."]
               ELSE IF line.parts[2].n # 1
                 THEN [now EXCEPT !.err = "Only format version 1 supported.",
                                  !.version = line.parts[2].n]
               ELSE [now EXCEPT !.version = line.parts[2].n]
        ELSE IF StartsWith(line, "From")
          THEN IF ~Sscanf(line, 2)
                 THEN [now EXCEPT !.err = "Invalid 'From' Tag."]
                 ELSE [now EXCEPT !.from_min = line.parts[2].n,
                                  !.from_max = line.parts[3].n]
        ELSE IF StartsWith(line, "Components")
          THEN IF ~Sscanf(line, 1)
                 THEN [now EXCEPT !.err = "Invalid 'Components' Tag."]
                 ELSE [now EXCEPT !.components = line.parts[2].n]
        ELSE IF StartsWith(line, "Length")
          THEN IF ~Sscanf(line, 1)
                 THEN [now EXCEPT !.err = "Invalid 'Length' Tag."]
                 ELSE [now EXCEPT !.lut_size = line.parts[2].n]
        ELSE now

\* the checks that follow the header loop: the error raised ("" when none)
SpiHeaderCheck(h) ==
    IF h.version = -1 THEN "Could not find 'Version' Tag."
    ELSE IF h.lut_size = -1 THEN "Could not find 'Length' Tag."
    ELSE IF h.components = -1 THEN "Could not find 'Components' Tag."
    ELSE IF h.components < 0 \/ h.components > 3
        THEN "Components must be [1,2,3]."
    ELSE ""

\* std::make_shared<Lut1DOpData>(lut_size): an array of 3*lut_size values
NewLutArray(size) == [k \in 1..(3 * size) |-> -1]

\* if (lineCount != lut_size) throw, else return the cached file
SpiFinish(count, size, array, min, max) ==
    IF count # size
        THEN SpiThrow(SpiThrowErrorMessage("Not enough entries found.",
                                           SpiFileName, -1, EmptyLine))
        ELSE /\ spiPc' = "returned"
             /\ spiCached' = [has |-> TRUE, length |-> size, array |-> array,
                              from_min |-> min, from_max |-> max]
             /\ UNCHANGED spiError

\* one pass of the do ... while header loop; good is istream.good() after
\* the getline(): FALSE when the line is the last and has no newline
SpiHeaderLine(line, good) ==
    /\ spiPc = "header"
    /\ UNCHANGED notSpiVars
    /\ spiStream' = Append(spiStream, line)
    /\ spiGood' = good
    /\ UNCHANGED <<arrayIdx, lineCount, spiOob>>
    /\ LET h == SpiHeaderTag(line)
       IN  /\ version' = h.version
           /\ from_min' = h.from_min
           /\ from_max' = h.from_max
           /\ components' = h.components
           /\ lut_size' = h.lut_size
           /\ IF h.err # ""
                THEN /\ SpiThrow(SpiThrowErrorMessage(h.err, SpiFileName,
                                     currentLine + 1, line))
                     /\ UNCHANGED lutArray
              ELSE IF good /\ ~StartsWith(line, "{")
                THEN /\ spiPc' = "header"
                     /\ UNCHANGED <<lutArray, spiError, spiCached>>
              ELSE IF SpiHeaderCheck(h) # ""
                THEN /\ SpiThrow(SpiThrowErrorMessage(SpiHeaderCheck(h),
                                     SpiFileName, -1, EmptyLine))
                     /\ UNCHANGED lutArray
              ELSE /\ lutArray' = NewLutArray(h.lut_size)
                   /\ IF good
                        THEN /\ spiPc' = "data"
                             /\ UNCHANGED <<spiError, spiCached>>
                        ELSE SpiFinish(0, h.lut_size,
                                       NewLutArray(h.lut_size),
                                       h.from_min, h.from_max)

\* the getline() of the header loop reaches the end of the stream
SpiHeaderEof ==
    /\ spiPc = "header"
    /\ UNCHANGED notSpiVars
    /\ spiGood' = FALSE
    /\ UNCHANGED <<spiStream, version, from_min, from_max, components,
                   lut_size, arrayIdx, lineCount, spiOob>>
    /\ LET h == SpiHeaderTag(EmptyLine)
       IN  IF SpiHeaderCheck(h) # ""
             THEN /\ SpiThrow(SpiThrowErrorMessage(SpiHeaderCheck(h),
                                  SpiFileName, -1, EmptyLine))
                  /\ UNCHANGED lutArray
             ELSE /\ lutArray' = NewLutArray(lut_size)
                  /\ SpiFinish(0, lut_size, NewLutArray(lut_size),
                               from_min, from_max)

\* a variant of SpiEntry that writes x1 0 0 for one component
SpiEntryRedOnly(n, values) ==
    IF n = 1 THEN <<values[1], 0, 0>>
    ELSE IF n = 2 THEN <<values[1], values[2], 0>>
    ELSE <<values[1], values[2], values[3]>>

\* the three values written for a line of n components: x1 x1 x1, x1 x2 0.0
\* or x1 x2 x3
SpiEntry(n, values) ==
    IF n = 1 THEN <<values[1], values[1], values[1]>>
    ELSE IF n = 2 THEN <<values[1], values[2], 0>>
    ELSE <<values[1], values[2], values[3]>>

\* lutArray[i], lutArray[i + 1], lutArray[i + 2] = entry, for the indices
\* the array has
WriteEntry(array, at, entry) ==
    [k \in 1..Len(array) |->
        IF k \in (at + 1)..(at + 3) THEN entry[k - at] ELSE array[k]]

\* one pass of the while (istream.good()) data loop, on a line the
\* getline() before it read completely
SpiDataLine(line) ==
    /\ spiPc = "data"
    /\ UNCHANGED notSpiVars
    /\ spiStream' = Append(spiStream, line)
    /\ spiGood' = TRUE
    /\ UNCHANGED <<version, from_min, from_max, components, lut_size>>
    /\ IF line = CloseBrace
         THEN /\ SpiFinish(lineCount, lut_size, lutArray, from_min, from_max)
              /\ UNCHANGED <<lutArray, arrayIdx, lineCount, spiOob>>
       ELSE IF line.parts = <<>>
         THEN /\ spiPc' = "data"
              /\ UNCHANGED <<lutArray, arrayIdx, lineCount, spiOob,
                             spiError, spiCached>>
       ELSE IF ~StringVecToFloatVec(line.parts)
               \/ components # Len(line.parts)
         THEN /\ SpiThrow(SpiThrowErrorMessage("Malformed LUT line.",
                              SpiFileName, currentLine + 1, line))
              /\ UNCHANGED <<lutArray, arrayIdx, lineCount, spiOob>>
       ELSE /\ lutArray' = WriteEntry(lutArray, arrayIdx,
                               SpiEntry(components, FloatVec(line.parts)))
            /\ arrayIdx' = arrayIdx + 3
            /\ lineCount' = lineCount + 1
            /\ UNCHANGED <<spiError, spiCached>>
            /\ IF arrayIdx + 3 > Len(lutArray)
                 THEN \* a write past the end of the array: the read goes on
                      \* over the damaged heap, or the process dies
                      /\ spiOob' = TRUE
                      /\ spiPc' \in {"data", "crashed"}
                 ELSE /\ spiPc' = "data"
                      /\ UNCHANGED spiOob

\* a getline() of the data loop leaves the stream not good: the end of the
\* stream, or a last line without a newline, which is never processed
SpiDataEnd(last) ==
    /\ spiPc = "data"
    /\ UNCHANGED notSpiVars
    /\ spiStream' = spiStream \o last
    /\ spiGood' = FALSE
    /\ UNCHANGED <<version, from_min, from_max, components, lut_size,
                   lutArray, arrayIdx, lineCount, spiOob>>
    /\ SpiFinish(lineCount, lut_size, lutArray, from_min, from_max)

SpiRead ==
    \/ \E line \in SpiNextHeaderLines \cup {OpenBrace}, good \in BOOLEAN :
         SpiHeaderLine(line, good)
    \/ SpiHeaderEof
    \/ \E line \in SpiNextDataLines : SpiDataLine(line)
    \/ \E last \in {<<>>} \cup {<<l>> : l \in SpiNextDataLines} :
         SpiDataEnd(last)

(***************************************************************************)
(* Properties of spi1d read.                                               *)
(***************************************************************************)
SpiFinished == spiPc \notin {"header", "data"}

\* the header lines of a stream with one Version 1, one Components 1 and
\* one Length line, an optional well-formed From line and blank lines
C7_HeaderOk(s, b) ==
    /\ \E k \in 1..(b - 1) : s[k] = TagLine("Version", <<IntTok(1)>>)
    /\ \E k \in 1..(b - 1) : s[k] = TagLine("Components", <<IntTok(1)>>)
    /\ \E k \in 1..(b - 1) : StartsWith(s[k], "Length")
    /\ \A k \in 1..(b - 1) :
         \/ s[k] = TagLine("Version", <<IntTok(1)>>)
         \/ s[k] = TagLine("Components", <<IntTok(1)>>)
         \/ StartsWith(s[k], "Length") /\ Sscanf(s[k], 1)
         \/ StartsWith(s[k], "From") /\ Sscanf(s[k], 2)
         \/ s[k] = EmptyLine

DeclaredLength(s) ==
    s[CHOOSE k \in 1..Len(s) : StartsWith(s[k], "Length")].parts[2].n

IsOneValueLine(l) ==
    Len(l.parts) = 1 /\ l.parts[1].kind \in {"int", "flt"}

\* the body of the stream: lines of one value and blank lines, closed by }
C7_BodyOk(s, b) ==
    /\ Len(s) > b
    /\ s[Len(s)] = CloseBrace
    /\ \A k \in (b + 1)..(Len(s) - 1) :
         IsOneValueLine(s[k]) \/ s[k] = EmptyLine

RECURSIVE Replicated(_)
\* v_0 v_0 v_0 ... of the one-value lines of a stream, in stream order
Replicated(s) ==
    IF s = <<>> THEN <<>>
    ELSE IF IsOneValueLine(Head(s))
        THEN <<Head(s).parts[1].n, Head(s).parts[1].n, Head(s).parts[1].n>>
             \o Replicated(Tail(s))
    ELSE Replicated(Tail(s))

C7_Case ==
    /\ BraceAt(spiStream) > 0
    /\ C7_HeaderOk(spiStream, BraceAt(spiStream))
    /\ C7_BodyOk(spiStream, BraceAt(spiStream))
    /\ Len(Replicated(spiStream)) = 3 * DeclaredLength(spiStream)

HasFromLine(s) == \E k \in 1..Len(s) : StartsWith(s[k], "From")

FromLine(s) == s[CHOOSE k \in 1..Len(s) : StartsWith(s[k], "From")]

\* C7: a Version 1, Components 1, Length L stream with exactly L values
\* yields a LUT1D of length L whose array holds each value three times, in
\* file order; the domain is [0, 1] without a From line and the two values
\* of the From line with one.
C7_OneComponentRead ==
    (SpiFinished /\ C7_Case)
    => /\ spiPc = "returned"
       /\ spiCached.has
       /\ spiCached.length = DeclaredLength(spiStream)
       /\ spiCached.array = Replicated(spiStream)
       /\ IF HasFromLine(spiStream)
            THEN /\ spiCached.from_min = FromLine(spiStream).parts[2].n
                 /\ spiCached.from_max = FromLine(spiStream).parts[3].n
            ELSE /\ spiCached.from_min = 0
                 /\ spiCached.from_max = 1

\* a length 2 LUT read from a stream with a From line
C7_Witness ==
    /\ spiPc = "returned"
    /\ C7_Case
    /\ HasFromLine(spiStream)
    /\ spiCached.length = 2
    /\ Len(spiCached.array) = 6
    /\ spiCached.from_min = -1

\* the header of the stream ended with { and holds a well-formed Length line
DeclaresLength(s) ==
    /\ BraceAt(s) > 0
    /\ \E k \in 1..(BraceAt(s) - 1) :
         StartsWith(s[k], "Length") /\ Sscanf(s[k], 1)

\* the number of non-blank lines between the { and the } or the end of the
\* stream
NonBlankDataLines(s) ==
    Cardinality({k \in (BraceAt(s) + 1)..Len(s) :
                    s[k].parts # <<>> /\ s[k] # CloseBrace})

C12_Case ==
    /\ DeclaresLength(spiStream)
    /\ NonBlankDataLines(spiStream) # DeclaredLength(spiStream)

\* C12 as stated: a stream whose number of non-blank data lines differs from
\* the declared Length, with fewer or with more, fails with a parse error
\* and returns no cached file.
C12_WrongCountFails ==
    (SpiFinished /\ C12_Case)
    => /\ spiPc = "thrown"
       /\ spiError.exc = "Exception"
       /\ ~spiCached.has

\* the Components value of the header of a stream (-1 without the line)
DeclaredComponents(s) ==
    IF \E k \in 1..Len(s) : StartsWith(s[k], "Components") /\ Sscanf(s[k], 1)
        THEN s[CHOOSE k \in 1..Len(s) :
                   StartsWith(s[k], "Components") /\ Sscanf(s[k], 1)].parts[2].n
        ELSE -1

\* the header loop ended on a header with Version 1, a Length line and a
\* Components line whose value is not 1, 2 or 3
C13_Case ==
    /\ DeclaresLength(spiStream)
    /\ DeclaredLength(spiStream) # -1
    /\ \E k \in 1..(BraceAt(spiStream) - 1) :
         spiStream[k] = TagLine("Version", <<IntTok(1)>>)
    /\ \E k \in 1..(BraceAt(spiStream) - 1) :
         StartsWith(spiStream[k], "Components")
    /\ \A k \in 1..(BraceAt(spiStream) - 1) :
         StartsWith(spiStream[k], "From") => Sscanf(spiStream[k], 2)
    /\ DeclaredComponents(spiStream) \notin {1, 2, 3}

\* C13 as stated: a read returns only with Components 1, 2 or 3; any other
\* value is rejected with "Components must be [1,2,3]." before the array is
\* allocated and before a data line is read.
C13_ComponentsValidated ==
    /\ spiPc = "returned" => DeclaredComponents(spiStream) \in {1, 2, 3}
    /\ C13_Case
       => /\ spiPc = "thrown"
          /\ spiError.error = "Components must be [1,2,3]."
          /\ lutArray = <<>>
          /\ Len(spiStream) = BraceAt(spiStream)

\* C14 as stated: every index the data loop writes lies inside the array
\* allocated from the header, so that i never exceeds its 3*Length values.
C14_WritesStayInArray ==
    /\ ~spiOob
    /\ arrayIdx <= Len(lutArray)

(***************************************************************************)
(* Iridas .itx LocalFileFormat::bake.  A sample is a triple of grid        *)
(* coordinates 0..size-1 (the numerators of the identity LUT's values).    *)
(***************************************************************************)
MaxCubeSize == 3

DEFAULT_CUBE_SIZE == 64

\* the cube sizes a Baker reports: -1 (not set) and the sizes set
CubeSizes == (-2)..MaxCubeSize

FormatNames == {"iridas_itx", "iridas_cube"}

Evaluators == {"identity", "invert"}

Max(a, b) == IF a >= b THEN a ELSE b

\* a variant of BakeCubeSize without the clamp to 2
BakeCubeSizeNoClamp(size) ==
    IF size = -1 THEN DEFAULT_CUBE_SIZE ELSE size

\* if(cubeSize==-1) cubeSize = DEFAULT_CUBE_SIZE;
\* cubeSize = std::max(2, cubeSize);
BakeCubeSize(size) ==
    Max(2, IF size = -1 THEN DEFAULT_CUBE_SIZE ELSE size)

\* GenerateIdentityLut3D(..., LUT3DORDER_FAST_RED): the value at flat index
\* k of the identity cube, red varying fastest
GenerateIdentityLut3D(size, k) ==
    LET sample == k \div 3
    IN  IF k % 3 = 0 THEN sample % size
        ELSE IF k % 3 = 1 THEN (sample \div size) % size
        ELSE sample \div (size * size)

\* cpu->apply(cubeImg): the processor maps every value of the image
Apply(e, size, v) == IF e = "invert" THEN size - 1 - v ELSE v

\* cubeData[k] after GenerateIdentityLut3D and cpu->apply
CubeData(e, size, k) == Apply(e, size, GenerateIdentityLut3D(size, k))

\* a variant of BakeSample that writes the red value three times
BakeSampleRedOnly(e, size, n) ==
    <<CubeData(e, size, 3 * n), CubeData(e, size, 3 * n),
      CubeData(e, size, 3 * n)>>

\* r = cubeData[3*i+0]; g = cubeData[3*i+1]; b = cubeData[3*i+2]
BakeSample(e, size, n) ==
    <<CubeData(e, size, 3 * n), CubeData(e, size, 3 * n + 1),
      CubeData(e, size, 3 * n + 2)>>

\* bake() up to the loop that writes the samples
BakeBegin ==
    /\ bakePc = "start"
    /\ UNCHANGED notBakeVars
    /\ UNCHANGED <<formatName, reported, evaluator, written, lastLine>>
    /\ IF formatName # "iridas_itx"
         THEN /\ bakePc' = "thrown"
              /\ bakeError' = "Unknown 3dl format name"
              /\ UNCHANGED <<cubeSize, ostream>>
         ELSE /\ cubeSize' = BakeCubeSize(reported)
              /\ ostream' = <<BakeCubeSize(reported)>>
              /\ IF BakeCubeSize(reported) < 2
                   THEN /\ bakePc' = "thrown"
                        /\ bakeError' = "Internal cube size exception."
                   ELSE /\ bakePc' = "writing"
                        /\ UNCHANGED bakeError

\* one pass of for(int i=0; i<cubeSize*cubeSize*cubeSize; ++i)
BakeWriteLine ==
    /\ bakePc = "writing"
    /\ UNCHANGED notBakeVars
    /\ \E count \in Cube(cubeSize) : written < count
    /\ written' = written + 1
    /\ lastLine' = BakeSample(evaluator, cubeSize, written)
    /\ UNCHANGED <<bakePc, formatName, reported, evaluator, cubeSize,
                   ostream, bakeError>>

\* the loop ends and the closing newline is written
BakeEnd ==
    /\ bakePc = "writing"
    /\ UNCHANGED notBakeVars
    /\ \E count \in Cube(cubeSize) : ~(written < count)
    /\ bakePc' = "done"
    /\ UNCHANGED <<formatName, reported, evaluator, cubeSize, ostream,
                   written, lastLine, bakeError>>

Bake ==
    \/ BakeBegin
    \/ BakeWriteLine
    \/ BakeEnd

(***************************************************************************)
(* Properties of Iridas .itx bake.                                         *)
(***************************************************************************)
\* the coordinates of sample n of a cube in red-fastest order
RedFastest(size, n) ==
    <<n % size, (n \div size) % size, n \div (size * size)>>

ItxIdle ==
    /\ itxPc = "reading"
    /\ itxStream = <<>>
    /\ size3d = 0
    /\ in3d = FALSE
    /\ raw = <<>>
    /\ itxError = NoError
    /\ itxCached = NoItxFile

BuildIdle ==
    /\ itxFile = IdleItxFile
    /\ spiFile = IdleSpiFile
    /\ ops = <<>>
    /\ shaderDesc = <<>>
    /\ call = NoCall

SpiIdle ==
    /\ spiPc = "header"
    /\ spiStream = <<>>
    /\ spiGood = TRUE
    /\ version = -1
    /\ components = -1
    /\ lut_size = -1
    /\ from_min = 0
    /\ from_max = 1
    /\ lutArray = <<>>
    /\ arrayIdx = 0
    /\ lineCount = 0
    /\ spiOob = FALSE
    /\ spiError = NoError
    /\ spiCached = NoSpiFile

BakeIdle ==
    /\ bakePc = "start"
    /\ formatName = "iridas_itx"
    /\ reported = -1
    /\ evaluator = "identity"
    /\ cubeSize = 0
    /\ ostream = <<>>
    /\ written = 0
    /\ lastLine = <<>>
    /\ bakeError = ""

\* read() of an Iridas .itx stream
InitItxRead == ItxIdle /\ BuildIdle /\ SpiIdle /\ BakeIdle

SpecItxRead == InitItxRead /\ [][ItxRead]_vars

\* the builders, on cached files as the reads leave them
InitBuild ==
    /\ ItxIdle
    /\ SpiIdle
    /\ BakeIdle
    /\ \E i \in Interpolations :
         itxFile = [lut3D |-> TRUE, interpolation |-> i]
    /\ \E i \in Interpolations, d \in Domains :
         spiFile = [interpolation |-> i, from_min |-> d[1], from_max |-> d[2]]
    /\ ops = <<>>
    /\ shaderDesc = <<>>
    /\ call = NoCall

SpecBuild == InitBuild /\ [][Build]_vars

\* finalize and the renderers, on vectors of FixedFunctionOps
InitFinalize == ItxIdle /\ BuildIdle /\ SpiIdle /\ BakeIdle

SpecFinalize == InitFinalize /\ [][Finalize]_vars

\* read() of a spi1d stream
InitSpiRead == ItxIdle /\ BuildIdle /\ SpiIdle /\ BakeIdle

SpecSpiRead == InitSpiRead /\ [][SpiRead]_vars

\* bake() for every Baker
InitBake ==
    /\ ItxIdle
    /\ BuildIdle
    /\ SpiIdle
    /\ bakePc = "start"
    /\ formatName \in FormatNames
    /\ reported \in CubeSizes
    /\ evaluator \in Evaluators
    /\ cubeSize = 0
    /\ ostream = <<>>
    /\ written = 0
    /\ lastLine = <<>>
    /\ bakeError = ""

SpecBake == InitBake /\ [][Bake]_vars

====
